---- MODULE Spec2Model ----
(***************************************************************************)
(* upcata: Cataclysm DDA experimental build update tool (src/upcata.py).   *)
(* The model is the release-transition workflow of _main: the installation *)
(* root (the working directory) with its `current` entry, versioned build  *)
(* directories, downloaded tarballs, the userdata tree and the backups,    *)
(* and one action per step of _main.  File and directory names are         *)
(* sequences of one-character strings, so that the regular expression of   *)
(* get_current_release, str.replace, str.lower and string concatenation    *)
(* are computed as the code computes them.                                 *)
(***************************************************************************)
EXTENDS Integers, Sequences, FiniteSets, TLC

(* ------------------------------ bounds -------------------------------- *)

\* Number of invocations of the tool on the same installation root.
MaxRuns == 2

(* ------------------------------ strings ------------------------------- *)

None == << >>

Some(x) == << x >>

LowerCase ==
  << "a","b","c","d","e","f","g","h","i","j","k","l","m",
     "n","o","p","q","r","s","t","u","v","w","x","y","z" >>

UpperCase ==
  << "A","B","C","D","E","F","G","H","I","J","K","L","M",
     "N","O","P","Q","R","S","T","U","V","W","X","Y","Z" >>

Digits == { "0","1","2","3","4","5","6","7","8","9" }

\* str.lower() on one character
Lower(c) ==
  IF \E i \in 1..26 : UpperCase[i] = c
    THEN LowerCase[CHOOSE i \in 1..26 : UpperCase[i] = c]
    ELSE c

\* str.lower()
LowerStr(s) == [ i \in 1..Len(s) |-> Lower(s[i]) ]

IsDigit(c) == c \in Digits

IsAlpha(c) == \E i \in 1..26 : LowerCase[i] = Lower(c)

\* the class [0-9A-Z\.] under re.I
IsVersionChar(c) == IsDigit(c) \/ IsAlpha(c) \/ c = "."

\* str.replace(old, ''): every non-overlapping occurrence, left to right
RECURSIVE StrRemove(_, _)
StrRemove(s, old) ==
  IF Len(s) < Len(old) \/ old = << >> THEN s
  ELSE IF SubSeq(s, 1, Len(old)) = old
    THEN StrRemove(SubSeq(s, Len(old) + 1, Len(s)), old)
    ELSE << s[1] >> \o StrRemove(Tail(s), old)

\* the literal 'cataclysmdda-' of the pattern in get_current_release
PRODUCT == << "c","a","t","a","c","l","y","s","m","d","d","a","-" >>

\* the default prefix 'cdda-jenkins-b' of get_latest_release
TAG_PREFIX == << "c","d","d","a","-","j","e","n","k","i","n","s","-","b" >>

\* 'Linux_x64 Tiles', the platform _main asks for
PLATFORM ==
  << "L","i","n","u","x","_","x","6","4"," ","T","i","l","e","s" >>

\* re.match(r'^cataclysmdda-(?P<version>[0-9A-Z\.]+)-b?(?P<build>[0-9]+)$',
\*          tlink, re.I): Some(groupdict) or None.  The version group cannot
\* hold a '-', so it is the maximal run of class characters after the
\* literal; 'b?' is taken when present, since 'b' is no digit.
ReMatch(s) ==
  LET p == Len(PRODUCT)
  IN  IF Len(s) <= p \/ LowerStr(SubSeq(s, 1, p)) # PRODUCT THEN None
      ELSE
        LET rest == SubSeq(s, p + 1, Len(s))
            vlen == CHOOSE k \in 0..Len(rest) :
                      /\ \A i \in 1..k : IsVersionChar(rest[i])
                      /\ (k = Len(rest) \/ ~IsVersionChar(rest[k + 1]))
        IN  IF vlen = 0 \/ vlen >= Len(rest) \/ rest[vlen + 1] # "-" THEN None
            ELSE
              LET after == SubSeq(rest, vlen + 2, Len(rest))
                  digs  == IF after # << >> /\ Lower(after[1]) = "b"
                             THEN Tail(after) ELSE after
              IN  IF digs # << >> /\ \A i \in 1..Len(digs) : IsDigit(digs[i])
                    THEN Some([version |-> SubSeq(rest, 1, vlen), build |-> digs])
                    ELSE None

(* ------------------------------ names --------------------------------- *)

\* "-".join-style concatenation used for newpath: tdir + '-' + build
Dash == << "-" >>

\* top-level directory of the release tarballs: 'cataclysmdda-0.D'
TOPDIR == PRODUCT \o << "0", ".", "D" >>

B8000 == << "8","0","0","0" >>

B8001 == << "8","0","0","1" >>

\* names of versioned directories the tool gives: <topdir>-<build>
V8000 == TOPDIR \o Dash \o B8000

V8001 == TOPDIR \o Dash \o B8001

\* an older install, named by the convention <product>-<version>-b<build>
VOLD == TOPDIR \o Dash \o << "b","7","9","9","0" >>

\* a `current` target that is no release directory name
FOO == << "f","o","o" >>

\* the entries of the installation root the model tracks (besides
\* `current`, `userdata`, the tarballs and the backups)
RootNames == { TOPDIR, V8000, V8001, VOLD }

\* USERDATA_DIR subdirectories, in the order _main creates and links them
UDSeq == << "save", "config", "sound" >>

UDNames == { UDSeq[i] : i \in 1..Len(UDSeq) }

\* os.path.realpath(os.path.join(USERDATA_DIR, n)): the absolute path of
\* the entry n of the userdata directory in the installation root
UdPath(n) == << "userdata", n >>

(* ------------------------------ filesystem ---------------------------- *)

Absent == [kind |-> "absent"]

RegFile == [kind |-> "file"]

Symlink(t) == [kind |-> "symlink", target |-> t]

PlainDir == [kind |-> "dir"]

NoLinks == [n \in UDNames |-> Absent]

AllLinks == [n \in UDNames |-> Symlink(UdPath(n))]

\* a directory of the installation root: who made it (0: there before the
\* first invocation, k: invocation k), whether the release payload is in
\* it ("empty", "partial", "full"), and its entries save/config/sound
BuildDir(by, payload, links) ==
  [kind |-> "dir", by |-> by, payload |-> payload, links |-> links]

\* os.path.exists on an entry of the installation root
Exists(e) == e.kind # "absent"

\* a directory with nothing in it (os.rename may replace it)
IsEmptyDir(e) ==
  /\ e.kind = "dir"
  /\ e.payload = "empty"
  /\ \A n \in UDNames : e.links[n] = Absent

\* the entry a relative path names in the installation root
Lookup(rt, name) == IF name \in DOMAIN rt THEN rt[name] ELSE Absent

\* a tar archive: unreadable, or one top-level directory holding the
\* release, which may ship entries named save/config/sound
BadArchive == [valid |-> FALSE, topdir |-> << >>, ships |-> {}]

Archive(topdir, ships) == [valid |-> TRUE, topdir |-> topdir, ships |-> ships]

Archives == { BadArchive, Archive(TOPDIR, {}), Archive(TOPDIR, {"config"}) }

TarFile(a) == [kind |-> "file", content |-> a]

\* the userdata tree: absent, or a directory whose entries save/config/
\* sound are "absent", "empty" (a directory just made) or "data" (a
\* directory holding the user's files)
UserData(sub) == [kind |-> "dir", sub |-> sub]

UdExists(ud, n) == ud.kind = "dir" /\ ud.sub[n] # "absent"

(* ------------------------------ remote API ---------------------------- *)

Asset(label, name) == [label |-> label, name |-> name]

Release(build, label) ==
  [tag_name |-> TAG_PREFIX \o build,
   assets |-> << Asset(<< "S","r","c" >>, << "src", build >>),
                 Asset(label, << "linux", build >>) >>]

\* what GET /releases may answer: an ordered sequence of releases
ReleaseLists ==
  { << >>,
    << Release(B8001, << "O","S","X" >>) >>,
    << Release(B8001, << "O","S","X" >>), Release(B8000, LowerStr(PLATFORM)) >>,
    << Release(B8001, PLATFORM), Release(B8000, PLATFORM) >> }

\* the file names of the downloadable assets, one per build
AssetNames == { << "linux", B8000 >>, << "linux", B8001 >> }

\* the assets of a release whose label is the platform, case-insensitively
Matching(rel, platform) ==
  SelectSeq(rel.assets, LAMBDA x : LowerStr(x.label) = LowerStr(platform))

\* mutation of GetLatestRelease: the scan does not stop at the first
\* release with a matching asset, the last one is taken
GetLatestRelease_Last(releases, platform) ==
  LET hits == { i \in 1..Len(releases) : Len(Matching(releases[i], platform)) > 0 }
  IN  IF hits = {} THEN None
      ELSE
        LET i == CHOOSE j \in hits : \A k \in hits : j >= k
            tlatest == releases[i]
        IN  Some([tag_name |-> tlatest.tag_name,
                  build |-> StrRemove(tlatest.tag_name, TAG_PREFIX),
                  tasset |-> Matching(tlatest, platform)[1]])

\* get_latest_release: the first release with an asset for the platform
GetLatestRelease(releases, platform) ==
  LET hits == { i \in 1..Len(releases) : Len(Matching(releases[i], platform)) > 0 }
  IN  IF hits = {} THEN None
      ELSE
        LET i == CHOOSE j \in hits : \A k \in hits : j <= k
            tlatest == releases[i]
        IN  Some([tag_name |-> tlatest.tag_name,
                  build |-> StrRemove(tlatest.tag_name, TAG_PREFIX),
                  tasset |-> Matching(tlatest, platform)[1]])

(* ------------------------------ time ---------------------------------- *)

\* An instant is a number of hundredths of a second since 00:00:00 UTC of
\* the day the model runs in.  Backups are taken in the first two seconds
\* of the day's first minute, at the start of a second or one hundredth
\* into it, or one minute later.
Instants == { 100, 101, 200, 201, 6100 }

Today == [year |-> 2019, month |-> 9, day |-> 17]

Hour(t) == (t \div 360000) % 24

Minute(t) == (t \div 6000) % 60

Second(t) == (t \div 100) % 60

Centi(t) == t % 100

\* arrow.get().format('YYYYMMDD-HHMMSS'): arrow's tokens are YYYY year,
\* MM month, DD day, HH hour, MM month (again: minutes are 'mm') and SS
\* the two-digit sub-second (seconds are 'ss').  The name is the sequence
\* of the fields the tokens print.
ArrowFormat(t) ==
  << Today.year, Today.month, Today.day, Hour(t), Today.month, Centi(t) >>

\* "save-" + the formatted instant
BackupName(t) == << "save-", ArrowFormat(t) >>

BackupNames == { BackupName(t) : t \in Instants }

(* ------------------------------ functions ----------------------------- *)

\* mutation of GetCurrentRelease: the version group of the name is
\* returned instead of the build group
GetCurrentRelease_Version(cur, rt) ==
  IF cur.kind # "symlink" THEN [raised |-> FALSE, ret |-> None]
  ELSE IF ReMatch(cur.target) = None THEN [raised |-> FALSE, ret |-> None]
  ELSE IF ~Exists(Lookup(rt, cur.target)) THEN [raised |-> TRUE, ret |-> None]
  ELSE [raised |-> FALSE, ret |-> Some(ReMatch(cur.target)[1].version)]

\* get_current_release: [raised, ret].  os.readlink fails on a missing
\* entry and on one that is no symlink (caught); a name the pattern does
\* not match makes .groupdict() fail on None (caught); os.stat('./current')
\* follows the link and raises, uncaught, when the target does not exist.
GetCurrentRelease(cur, rt) ==
  IF cur.kind # "symlink" THEN [raised |-> FALSE, ret |-> None]
  ELSE IF ReMatch(cur.target) = None THEN [raised |-> FALSE, ret |-> None]
  ELSE IF ~Exists(Lookup(rt, cur.target)) THEN [raised |-> TRUE, ret |-> None]
  ELSE [raised |-> FALSE, ret |-> Some(ReMatch(cur.target)[1].build)]

\* download_release: [raised, ret, tarballs].  open(lpath, 'wb') creates
\* or truncates the file before the request is made.  outcome "ok": the
\* archive is written; "http_error": raise_for_status fails, None is
\* returned; "conn_error": requests raises outside the try (no connection,
\* or the stream breaks), which nothing catches.
DownloadRelease(tbs, filename, outcome, archive) ==
  CASE outcome = "ok" ->
         [raised |-> FALSE, ret |-> Some(filename),
          tarballs |-> [tbs EXCEPT ![filename] = TarFile(archive)]]
    [] outcome = "http_error" ->
         [raised |-> FALSE, ret |-> None,
          tarballs |-> [tbs EXCEPT ![filename] = TarFile(BadArchive)]]
    [] outcome = "conn_error" ->
         [raised |-> TRUE, ret |-> None,
          tarballs |-> [tbs EXCEPT ![filename] = TarFile(BadArchive)]]

\* mutation of ExtractTarball: the existing top-level name is not looked
\* for, and the archive is extracted over it
ExtractTarball_Overwrites(rt, tbs, tarball, writeok, by) ==
  LET a == tbs[tarball].content
  IN  IF ~a.valid THEN [ret |-> None, root |-> rt]
      ELSE [ret |-> IF writeok THEN Some(a.topdir) ELSE None,
            root |-> [rt EXCEPT ![a.topdir] =
                        BuildDir(by, IF writeok THEN "full" ELSE "partial",
                                 [n \in UDNames |->
                                    IF n \in a.ships THEN PlainDir ELSE Absent])]]

\* extract_tarball: [ret, root].  An unreadable archive raises inside the
\* try; an existing top-level name is refused before anything is written;
\* extractall either completes or (writeok = FALSE) raises part-way,
\* leaving what it had written.  by: the invocation extracting.
ExtractTarball(rt, tbs, tarball, writeok, by) ==
  LET a == tbs[tarball].content
  IN  IF ~a.valid THEN [ret |-> None, root |-> rt]
      ELSE IF Exists(Lookup(rt, a.topdir)) THEN [ret |-> None, root |-> rt]
      ELSE IF ~writeok
        THEN [ret |-> None,
              root |-> [rt EXCEPT ![a.topdir] = BuildDir(by, "partial", NoLinks)]]
        ELSE [ret |-> Some(a.topdir),
              root |-> [rt EXCEPT ![a.topdir] =
                          BuildDir(by, "full",
                                   [n \in UDNames |->
                                      IF n \in a.ships THEN PlainDir ELSE Absent])]]

\* mutation of OsRename: whatever has the new name is replaced
OsRename_Force(rt, src, dst) ==
  [ok |-> TRUE, root |-> [rt EXCEPT ![dst] = rt[src], ![src] = Absent]]

\* mutation of OsRename: a rename that fails removes the directory it
\* could not rename
OsRename_CleansUp(rt, src, dst) ==
  IF ~Exists(Lookup(rt, dst)) \/ IsEmptyDir(Lookup(rt, dst))
    THEN [ok |-> TRUE, root |-> [rt EXCEPT ![dst] = rt[src], ![src] = Absent]]
    ELSE [ok |-> FALSE, root |-> [rt EXCEPT ![src] = Absent]]

\* os.rename(src, dst) on directories of the installation root:
\* [ok, root].  A missing dst is created, an empty directory dst is
\* replaced, a non-empty directory or a file dst makes it fail.
OsRename(rt, src, dst) ==
  IF ~Exists(Lookup(rt, dst)) \/ IsEmptyDir(Lookup(rt, dst))
    THEN [ok |-> TRUE, root |-> [rt EXCEPT ![dst] = rt[src], ![src] = Absent]]
    ELSE [ok |-> FALSE, root |-> rt]

\* mutation of Relink: a `current` entry that cannot be removed because
\* it is missing stops the relinking
Relink_UnlinkFatal(cur, target) ==
  IF cur.kind \in {"symlink", "file"}
    THEN [raised |-> FALSE, current |-> Symlink(target)]
    ELSE [raised |-> TRUE, current |-> cur]

\* lines 265-271: [raised, current].  os.unlink removes a symlink or a
\* file and fails (caught) on a missing entry and on a directory;
\* os.symlink raises, uncaught, when the entry is still there.
Relink(cur, target) ==
  LET after == IF cur.kind \in {"symlink", "file"} THEN Absent ELSE cur
  IN  IF Exists(after)
        THEN [raised |-> TRUE, current |-> after]
        ELSE [raised |-> FALSE, current |-> Symlink(target)]

\* os.makedirs(os.path.join(USERDATA_DIR, n)): [ok, userdata].  Makes
\* the userdata directory too when it is missing; fails when the leaf
\* exists or when the filesystem refuses (fsok = FALSE).
MakeDirs(ud, n, fsok) ==
  IF UdExists(ud, n) \/ ~fsok THEN [ok |-> FALSE, userdata |-> ud]
  ELSE [ok |-> TRUE,
        userdata |-> IF ud.kind = "dir"
                       THEN [ud EXCEPT !.sub[n] = "empty"]
                       ELSE UserData([m \in UDNames |->
                                        IF m = n THEN "empty" ELSE "absent"])]

\* the try block of lines 281-286 from its i-th makedirs on: the first
\* failure leaves the block.  failat: the call the filesystem refuses
\* (0: none).
RECURSIVE MakeAll(_, _, _)
MakeAll(ud, i, failat) ==
  IF i > Len(UDSeq) THEN ud
  ELSE LET r == MakeDirs(ud, UDSeq[i], failat # i)
       IN  IF r.ok THEN MakeAll(r.userdata, i + 1, failat) ELSE r.userdata

\* lines 273-286: the userdata tree after the step
EnsureUserdata(ud, failat) ==
  IF \A n \in UDNames : UdExists(ud, n) THEN ud ELSE MakeAll(ud, 1, failat)

\* lines 288-291 from the i-th os.symlink on: [raised, dir].  os.symlink
\* raises, uncaught, when the directory already has an entry of that name.
RECURSIVE LinkAll(_, _)
LinkAll(d, i) ==
  IF i > Len(UDSeq) THEN [raised |-> FALSE, dir |-> d]
  ELSE IF Exists(d.links[UDSeq[i]]) THEN [raised |-> TRUE, dir |-> d]
  ELSE LinkAll([d EXCEPT !.links[UDSeq[i]] = Symlink(UdPath(UDSeq[i]))], i + 1)

\* mutation of LinkUserdata: the three links are made with one target
LinkUserdata_OneTarget(d) ==
  LET r == LinkAll(d, 1)
  IN  [raised |-> r.raised,
       dir |-> [r.dir EXCEPT !.links =
                  [n \in UDNames |->
                     IF r.dir.links[n].kind = "symlink"
                       THEN Symlink(UdPath("save"))
                       ELSE r.dir.links[n]]]]

LinkUserdata(d) == LinkAll(d, 1)

\* mutation of BackupData: the tree is moved to the backup, not copied
BackupData_Moves(ud, bks, t, copyok, by) ==
  LET savedir == BackupName(t)
  IN  IF ud.kind # "dir" \/ Exists(bks[savedir])
        THEN [ret |-> None, source |-> ud, backups |-> bks]
        ELSE [ret |-> Some(savedir), source |-> Absent,
              backups |-> [bks EXCEPT ![savedir] =
                             [kind |-> "dir", by |-> by, complete |-> TRUE,
                              tree |-> ud.sub]]]

\* backup_data: [ret, source, backups].  shutil.copytree raises (caught)
\* when the source is missing or the destination exists, and may fail
\* part-way (copyok = FALSE), leaving what it had copied; the source tree
\* is read, not changed.
BackupData(ud, bks, t, copyok, by) ==
  LET savedir == BackupName(t)
  IN  IF ud.kind # "dir" \/ Exists(bks[savedir])
        THEN [ret |-> None, source |-> ud, backups |-> bks]
      ELSE IF ~copyok
        THEN [ret |-> None, source |-> ud,
              backups |-> [bks EXCEPT ![savedir] =
                             [kind |-> "dir", by |-> by, complete |-> FALSE,
                              tree |-> ud.sub]]]
        ELSE [ret |-> Some(savedir), source |-> ud,
              backups |-> [bks EXCEPT ![savedir] =
                             [kind |-> "dir", by |-> by, complete |-> TRUE,
                              tree |-> ud.sub]]]

(* ------------------------------ state --------------------------------- *)

VARIABLES
  current,    \* the entry ./current of the installation root
  root,       \* the other entries of the installation root, by name
  tarballs,   \* the downloaded asset files, by file name
  userdata,   \* the tree ./userdata
  backups,    \* the directories ./save-<timestamp>, by name
  clock,      \* the instant of the latest backup attempt
  pc,         \* where the running invocation is in _main, or how it ended
  runs,       \* invocations started so far
  update,     \* args.update of the running invocation
  releases,   \* what the release API answers to the running invocation
  rlocal,     \* _main's rlocal
  rlatest,    \* _main's rlatest
  tball,      \* _main's tball
  tdir,       \* _main's tdir
  newpath,    \* _main's newpath
  curbackup,  \* _main's curbackup
  exitcode,   \* the exit status of the invocation, None while it runs
  raised,     \* the invocation ended by an exception nothing caught
  failedIn,   \* the step in which the invocation failed, "" if none
  changes,    \* get_changes was called by this invocation
  refused,    \* the filesystem refused a makedirs of this invocation
  attempts,   \* the backup attempts so far: instant, name, result
  fs0,        \* the filesystem when the running invocation started
  prevDone    \* the build the invocation before installed, None if it did not finish an update

fsvars == << current, root, tarballs, userdata, backups >>

locals == << rlocal, rlatest, tball, tdir, newpath, curbackup >>

ghosts == << changes, refused, attempts, fs0, prevDone >>

vars ==
  << current, root, tarballs, userdata, backups, clock, pc, runs, update,
     releases, rlocal, rlatest, tball, tdir, newpath, curbackup, exitcode, raised,
     failedIn, changes, refused, attempts, fs0, prevDone >>

\* the filesystem as one value
FS ==
  [current |-> current, root |-> root, tarballs |-> tarballs,
   userdata |-> userdata, backups |-> backups]

\* the ways an invocation ends
Terminal ==
  { "UP_TO_DATE", "CHECK_ONLY", "NO_RELEASE", "ABORTED", "CRASHED", "FINISHED" }

\* a build directory as the tool leaves it after a complete update
Installed == BuildDir(0, "full", AllLinks)

\* the `current` entries an installation root may start with, each with
\* the entry (if any) its target names
InitCurrent ==
  { << Absent, Absent >>, << RegFile, Absent >>, << PlainDir, Absent >> }
    \cup { << Symlink(v), e >> : v \in { VOLD, V8000 }, e \in { Installed, Absent } }
    \cup { << Symlink(FOO), Absent >> }

\* other entries the installation root may start with: a leftover
\* top-level directory, or something in the way of the name <topdir>-8001
InitObstacle ==
  { << TOPDIR, Absent >>,
    << TOPDIR, BuildDir(0, "full", NoLinks) >>,
    << V8001, RegFile >>,
    << V8001, BuildDir(0, "empty", NoLinks) >>,
    << V8001, BuildDir(0, "full", NoLinks) >> }

InitUserdata ==
  { Absent }
    \cup { UserData([n \in UDNames |-> IF n \in S THEN "data" ELSE "absent"]) :
             S \in SUBSET UDNames }

\* the userdata tree of an installation in use
FullUserdata == UserData([n \in UDNames |-> "data"])

\* The installation roots the model starts from: every `current` entry
\* with and without userdata; every obstacle, and every userdata tree,
\* on a fresh root and on a root with an older install.
InitLayouts ==
  LET usual == { << Absent, Absent >>, << Symlink(VOLD), Installed >> }
      clear == << TOPDIR, Absent >>
  IN  { << c, clear, u >> : c \in InitCurrent, u \in { Absent, FullUserdata } }
        \cup { << c, o, FullUserdata >> : c \in usual, o \in InitObstacle }
        \cup { << c, clear, u >> : c \in usual, u \in InitUserdata }

Init ==
  /\ \E l \in InitLayouts :
       /\ current = l[1][1]
       /\ root = [n \in RootNames |->
                    IF l[1][1].kind = "symlink" /\ n = l[1][1].target THEN l[1][2]
                    ELSE IF n = l[2][1] THEN l[2][2]
                    ELSE Absent]
       /\ userdata = l[3]
  /\ tarballs = [f \in AssetNames |-> Absent]
  /\ backups = [b \in BackupNames |-> Absent]
  /\ clock = 0
  /\ pc = "IDLE"
  /\ runs = 0
  /\ update = FALSE
  /\ releases = << >>
  /\ rlocal = None /\ rlatest = None /\ tball = None
  /\ tdir = None /\ newpath = None /\ curbackup = None
  /\ exitcode = None
  /\ raised = FALSE
  /\ failedIn = ""
  /\ changes = FALSE
  /\ refused = FALSE
  /\ attempts = << >>
  /\ fs0 = FS
  /\ prevDone = None

(* ------------------------------ steps of _main ------------------------ *)

\* the invocation ends: sys.exit(code), a return from _main (0), or an
\* exception nothing catches (Python then exits with status 1)
Ends(how, code, exc, step) ==
  /\ pc' = how
  /\ exitcode' = Some(code)
  /\ raised' = exc
  /\ failedIn' = step

Goes(next) ==
  /\ pc' = next
  /\ UNCHANGED << exitcode, raised, failedIn >>

\* the tool is run, with or without --update, while the release API
\* answers rels
Invoke(u, rels) ==
  /\ pc \in Terminal \cup { "IDLE" }
  /\ runs < MaxRuns
  /\ runs' = runs + 1
  /\ update' = u
  /\ releases' = rels
  /\ pc' = "CHECKING"
  /\ rlocal' = None /\ rlatest' = None /\ tball' = None
  /\ tdir' = None /\ newpath' = None /\ curbackup' = None
  /\ exitcode' = None
  /\ raised' = FALSE
  /\ failedIn' = ""
  /\ changes' = FALSE
  /\ refused' = FALSE
  /\ fs0' = FS
  /\ prevDone' = IF pc = "FINISHED" THEN Some(rlatest[1].build) ELSE None
  /\ UNCHANGED << fsvars, clock, attempts >>

\* lines 217-221: resolve the installed build, ask for the latest release
Checking ==
  /\ pc = "CHECKING"
  /\ LET r == GetCurrentRelease(current, root)
         l == GetLatestRelease(releases, PLATFORM)
     IN  IF r.raised
           THEN /\ Ends("CRASHED", 1, TRUE, "CHECKING")
                /\ UNCHANGED << rlocal, rlatest >>
           ELSE /\ rlocal' = r.ret
                /\ rlatest' = l
                /\ IF l = None
                     THEN Ends("NO_RELEASE", 1, FALSE, "CHECKING")
                     ELSE Goes("COMPARING")
  /\ UNCHANGED << fsvars, clock, runs, update, releases, tball, tdir, newpath,
                  curbackup, ghosts >>

\* mutation of SameBuild: the local build is compared with the tag name
SameBuild_Tag(local, latest) == local = Some(latest[1].tag_name)

\* line 223: rlocal == rlatest['build']
SameBuild(local, latest) == local = Some(latest[1].build)

\* lines 223-225
Comparing ==
  /\ pc = "COMPARING"
  /\ IF SameBuild(rlocal, rlatest)
       THEN Ends("UP_TO_DATE", 0, FALSE, "")
       ELSE Goes("STALE")
  /\ UNCHANGED << fsvars, clock, runs, update, releases, locals, ghosts >>

\* mutation of Stale: the update is made whether or not it was asked for
Stale_IgnoresFlag ==
  /\ pc = "STALE"
  /\ changes' = (rlocal # None)
  /\ Goes("DOWNLOADING")
  /\ UNCHANGED << fsvars, clock, runs, update, releases, locals, refused, attempts,
                  fs0, prevDone >>

\* lines 227-243 and 306-307: show the release, the changes since a known
\* local build, and go on only with --update
Stale ==
  /\ pc = "STALE"
  /\ changes' = (rlocal # None)
  /\ IF update
       THEN Goes("DOWNLOADING")
       ELSE Ends("CHECK_ONLY", 0, FALSE, "")
  /\ UNCHANGED << fsvars, clock, runs, update, releases, locals, refused, attempts,
                  fs0, prevDone >>

\* lines 245-249
Downloading(outcome, archive) ==
  /\ pc = "DOWNLOADING"
  /\ LET r == DownloadRelease(tarballs, rlatest[1].tasset.name, outcome, archive)
     IN  /\ tarballs' = r.tarballs
         /\ tball' = r.ret
         /\ IF r.raised THEN Ends("CRASHED", 1, TRUE, "DOWNLOADING")
            ELSE IF r.ret = None THEN Ends("ABORTED", 2, FALSE, "DOWNLOADING")
            ELSE Goes("EXTRACTING")
  /\ UNCHANGED << current, root, userdata, backups, clock, runs, update, releases,
                  rlocal, rlatest, tdir, newpath, curbackup, ghosts >>

\* mutation of Extracting: the extracted directory is linked under its
\* own name, the rename step is skipped
Extracting_SkipsRename(writeok) ==
  /\ pc = "EXTRACTING"
  /\ LET r == ExtractTarball(root, tarballs, tball[1], writeok, runs)
     IN  /\ root' = r.root
         /\ tdir' = r.ret
         /\ newpath' = r.ret
         /\ IF r.ret = None
              THEN Ends("ABORTED", 2, FALSE, "EXTRACTING")
              ELSE Goes("RELINKING_CURRENT")
  /\ UNCHANGED << current, tarballs, userdata, backups, clock, runs, update, releases,
                  rlocal, rlatest, tball, curbackup, ghosts >>

\* lines 251-255
Extracting(writeok) ==
  /\ pc = "EXTRACTING"
  /\ LET r == ExtractTarball(root, tarballs, tball[1], writeok, runs)
     IN  /\ root' = r.root
         /\ tdir' = r.ret
         /\ IF r.ret = None
              THEN Ends("ABORTED", 2, FALSE, "EXTRACTING")
              ELSE Goes("RENAMING")
  /\ UNCHANGED << current, tarballs, userdata, backups, clock, runs, update, releases,
                  rlocal, rlatest, tball, newpath, curbackup, ghosts >>

\* lines 257-263
Renaming ==
  /\ pc = "RENAMING"
  /\ LET np == tdir[1] \o Dash \o rlatest[1].build
         r  == OsRename(root, tdir[1], np)
     IN  /\ newpath' = Some(np)
         /\ root' = r.root
         /\ IF r.ok
              THEN Goes("RELINKING_CURRENT")
              ELSE Ends("ABORTED", 2, FALSE, "RENAMING")
  /\ UNCHANGED << current, tarballs, userdata, backups, clock, runs, update, releases,
                  rlocal, rlatest, tball, tdir, curbackup, ghosts >>

\* lines 265-271
RelinkingCurrent ==
  /\ pc = "RELINKING_CURRENT"
  /\ LET r == Relink(current, newpath[1])
     IN  /\ current' = r.current
         /\ IF r.raised
              THEN Ends("CRASHED", 1, TRUE, "RELINKING_CURRENT")
              ELSE Goes("ENSURING_USERDATA")
  /\ UNCHANGED << root, tarballs, userdata, backups, clock, runs, update, releases,
                  locals, ghosts >>

\* lines 273-286
EnsuringUserdata(failat) ==
  /\ pc = "ENSURING_USERDATA"
  /\ userdata' = EnsureUserdata(userdata, failat)
  /\ refused' = (userdata' # EnsureUserdata(userdata, 0))
  /\ Goes("LINKING_USERDATA")
  /\ UNCHANGED << current, root, tarballs, backups, clock, runs, update, releases,
                  locals, changes, attempts,
                  fs0, prevDone >>

\* lines 288-291
LinkingUserdata ==
  /\ pc = "LINKING_USERDATA"
  /\ LET r == LinkUserdata(root[newpath[1]])
     IN  /\ root' = [root EXCEPT ![newpath[1]] = r.dir]
         /\ IF r.raised
              THEN Ends("CRASHED", 1, TRUE, "ENSURING_USERDATA")
              ELSE Goes("BACKING_UP")
  /\ UNCHANGED << current, tarballs, userdata, backups, clock, runs, update, releases,
                  locals, ghosts >>

\* lines 293-299.  The backup is taken at some instant after the last one.
BackingUp(t, copyok) ==
  /\ pc = "BACKING_UP"
  /\ t > clock
  /\ LET r == BackupData(userdata, backups, t, copyok, runs)
     IN  /\ backups' = r.backups
         /\ userdata' = r.source
         /\ curbackup' = r.ret
         /\ attempts' = Append(attempts, [t |-> t, ret |-> r.ret])
  /\ clock' = t
  /\ Goes("DONE")
  /\ UNCHANGED << current, root, tarballs, runs, update, releases, rlocal,
                  rlatest, tball, tdir, newpath, changes, refused,
                  fs0, prevDone >>

\* lines 301-305: the summary calls get_current_release once more
Done ==
  /\ pc = "DONE"
  /\ IF GetCurrentRelease(current, root).raised
       THEN Ends("CRASHED", 1, TRUE, "DONE")
       ELSE Ends("FINISHED", 0, FALSE, "")
  /\ UNCHANGED << fsvars, clock, runs, update, releases, locals, ghosts >>

Next ==
  \/ \E u \in BOOLEAN, rels \in ReleaseLists : Invoke(u, rels)
  \/ Checking
  \/ Comparing
  \/ Stale
  \/ \E outcome \in { "ok", "http_error", "conn_error" }, archive \in Archives :
       Downloading(outcome, archive)
  \/ \E writeok \in BOOLEAN : Extracting(writeok)
  \/ Renaming
  \/ RelinkingCurrent
  \/ \E failat \in 0..Len(UDSeq) : EnsuringUserdata(failat)
  \/ LinkingUserdata
  \/ \E t \in Instants, copyok \in BOOLEAN : BackingUp(t, copyok)
  \/ Done

Spec == Init /\ [][Next]_vars

(* ------------------------------ properties ---------------------------- *)

\* the update of the running invocation got past RENAMING and the backup
ReachedDone == pc \in { "DONE", "FINISHED" }

\* the name holds the build identifier
EmbedsBuild(name, build) ==
  \E i \in 1..Len(name) : SubSeq(name, i, i + Len(build) - 1) = build

\* the build the release API offers the running invocation
RemoteBuild == rlatest[1].build

\* C1: once an update has reached DONE, `current` is a symlink whose
\* target (one hop) is a directory of the installation root whose name
\* embeds the remote build identifier, and in that directory save, config
\* and sound are symlinks to the paths of the same names under userdata.
C1_DoneLayout ==
  ReachedDone =>
    /\ current.kind = "symlink"
    /\ EmbedsBuild(current.target, RemoteBuild)
    /\ Lookup(root, current.target).kind = "dir"
    /\ \A n \in UDNames :
         Lookup(root, current.target).links[n] = Symlink(UdPath(n))

C1_Witness ==
  /\ pc = "FINISHED"
  /\ update
  /\ fs0.current = Symlink(VOLD)
  /\ current = Symlink(V8000)
  /\ root[V8000].links = AllLinks

\* C3: when the installed build resolved from `current` equals the build
\* of the latest remote release, the invocation, with or without
\* --update, downloads nothing, leaves the filesystem as it found it and
\* ends UP_TO_DATE with exit code 0.
C3_UpToDateNoMutation ==
  (rlatest # None /\ rlocal = Some(RemoteBuild)) =>
    /\ FS = fs0
    /\ tball = None
    /\ pc \in { "COMPARING", "UP_TO_DATE" }
    /\ pc = "UP_TO_DATE" => (exitcode = Some(0) /\ ~raised)

C3_Witness ==
  /\ pc = "UP_TO_DATE"
  /\ update
  /\ rlocal = Some(B8000)
  /\ RemoteBuild = B8000

FatalSteps == { "DOWNLOADING", "EXTRACTING", "RENAMING" }

\* every entry the installation root had when the invocation started is
\* as it was
RootKept == \A n \in RootNames : Exists(fs0.root[n]) => root[n] = fs0.root[n]

\* C2: an update that fails in DOWNLOADING, EXTRACTING or RENAMING exits
\* with code 2, leaves `current` and the directories installed before as
\* they were, and runs none of the later steps (no relink, no userdata
\* directories or links, no backup).
C2_FatalStepExits2 ==
  failedIn \in FatalSteps =>
    /\ exitcode = Some(2)
    /\ current = fs0.current
    /\ RootKept
    /\ userdata = fs0.userdata
    /\ backups = fs0.backups

\* C5: whatever the `current` entry is (missing, not a symlink, a symlink
\* to a name that does not parse, a symlink to a name that parses whose
\* target exists or not), resolving the installed release gives a build or
\* Unknown and never ends the invocation.
C5_ResolveNeverFatal == ~(raised /\ failedIn \in { "CHECKING", "DONE" })

\* C6: whichever of save, config, sound exist under userdata, once
\* ENSURING_USERDATA has run without the filesystem refusing a creation,
\* all three exist under userdata.
C6_AllUserdataDirsExist ==
  (pc = "LINKING_USERDATA" /\ ~refused) =>
    \A n \in UDNames : UdExists(userdata, n)

\* the release API offers a release with an asset for the platform
Usable ==
  \E i \in 1..Len(releases) : \E j \in 1..Len(releases[i].assets) :
    LowerStr(releases[i].assets[j].label) = LowerStr(PLATFORM)

\* C7: an invocation ends with exit code 0, 1 or 2: 1 exactly when the
\* API offers no usable release, 2 exactly when the download, the
\* extraction or the rename of an update failed, 0 otherwise.
C7_ExitCodes ==
  pc \in Terminal =>
    /\ exitcode \in { Some(0), Some(1), Some(2) }
    /\ exitcode = Some(1) <=> ~Usable
    /\ exitcode = Some(2) <=> failedIn \in FatalSteps

\* the archive the running invocation downloaded
Downloaded == tarballs[tball[1]].content

\* C8: extracting an archive into an installation root that already has
\* an entry with the archive's top-level name returns no directory name,
\* extracts nothing and leaves that entry (and the rest of the root) as
\* it was.
C8_ExistingTopdirRefused ==
  (/\ tball # None
   /\ pc # "EXTRACTING"
   /\ Downloaded.valid
   /\ Exists(Lookup(fs0.root, Downloaded.topdir))) =>
    /\ tdir = None
    /\ root = fs0.root
    /\ pc = "ABORTED" /\ failedIn = "EXTRACTING"

C8_Witness ==
  /\ pc = "ABORTED"
  /\ failedIn = "EXTRACTING"
  /\ Downloaded = Archive(TOPDIR, {})
  /\ fs0.root[TOPDIR] = BuildDir(0, "full", NoLinks)
  /\ root[TOPDIR] = BuildDir(0, "full", NoLinks)

\* C9: through an invocation, however it ends, what was in the userdata
\* tree stays where it was with its content; the only changes to the tree
\* are new, empty save, config and sound directories; and a backup made
\* by the invocation holds a copy of the tree, which stays in place.
C9_UserdataKept ==
  /\ fs0.userdata.kind = "dir" => userdata.kind = "dir"
  /\ \A n \in UDNames :
       IF UdExists(fs0.userdata, n)
         THEN UdExists(userdata, n) /\ userdata.sub[n] = fs0.userdata.sub[n]
         ELSE userdata.kind = "dir" => userdata.sub[n] \in { "absent", "empty" }
  /\ \A b \in BackupNames :
       backups[b] # fs0.backups[b] =>
         (userdata.kind = "dir" /\ backups[b].tree = userdata.sub)

C9_Witness ==
  /\ pc = "FINISHED"
  /\ fs0.userdata = UserData([n \in UDNames |-> IF n = "save" THEN "data" ELSE "absent"])
  /\ userdata.sub["save"] = "data"
  /\ userdata.sub["config"] = "absent"
  /\ curbackup # None
  /\ backups[curbackup[1]].tree = userdata.sub

\* the two instants are in the same UTC second of the model's day
SameSecond(a, b) ==
  /\ Hour(a) = Hour(b)
  /\ Minute(a) = Minute(b)
  /\ Second(a) = Second(b)

\* C10: two backups taken at instants that differ in their UTC second
\* (year, month, day, hour, minute, second) get different names, so the
\* later one does not run into the directory of the earlier one.
C10_DistinctSecondsDistinctNames ==
  \A i, j \in 1..Len(attempts) :
    ~SameSecond(attempts[i].t, attempts[j].t) =>
      BackupName(attempts[i].t) # BackupName(attempts[j].t)

\* the names a `current` symlink of the model can hold
LinkTargets == RootNames \cup { FOO }

\* line 113: the names that parse as a versioned build directory
VersionedNames == { n \in LinkTargets : ReMatch(n) # None }

\* line 113: the name is the name of a versioned build directory
Versioned(n) == n \in VersionedNames

\* lines 106-116: the invocation started without a recognisable install:
\* no `current` entry, or a `current` symlink whose target name does not
\* parse as a versioned build directory
UnknownStart ==
  \/ fs0.current.kind = "absent"
  \/ (fs0.current.kind = "symlink" /\ ~Versioned(fs0.current.target))

\* C11: an invocation that starts without a recognisable install (no
\* `current` entry, or a target name that does not parse) resolves no
\* local build, is never found up to date, requests no changelog, is
\* stopped neither by resolving the install nor by relinking `current`,
\* and when its update reaches DONE `current` points at the new build
\* directory.
C11_UnknownIsFirstInstall ==
  (UnknownStart /\ pc \notin { "IDLE", "CHECKING" }) =>
    /\ rlocal = None
    /\ pc # "UP_TO_DATE"
    /\ ~changes
    /\ ~(raised /\ failedIn \in { "CHECKING", "RELINKING_CURRENT", "DONE" })
    /\ (pc \in { "ENSURING_USERDATA", "LINKING_USERDATA", "BACKING_UP" } \cup
               { "DONE", "FINISHED" }) =>
         /\ newpath # None
         /\ current = Symlink(newpath[1])
         /\ root[newpath[1]].kind = "dir"

C11_Witness ==
  /\ pc = "FINISHED"
  /\ update
  /\ fs0.current.kind = "absent"
  /\ rlocal = None
  /\ ~changes
  /\ current = Symlink(V8001)
  /\ root[V8001].kind = "dir"

\* line 90: platform.lower()
PlatformLower == LowerStr(PLATFORM)

\* line 90: the release has an asset labelled with the platform, letter
\* case aside
HasPlatformAsset(rel) ==
  \E k \in 1..Len(rel.assets) :
    /\ Len(rel.assets[k].label) = Len(PlatformLower)
    /\ LowerStr(rel.assets[k].label) = PlatformLower

\* lines 217-218: both lookups of the running invocation have returned
Resolved == pc \notin { "IDLE", "CHECKING" } /\ ~(raised /\ failedIn = "CHECKING")

\* C12: for the release list the API returned, in its order, the selected
\* release is the first one that has an asset whose label equals the
\* platform case-insensitively, the chosen asset is an asset of that
\* release with such a label, and when no release has one no release is
\* selected.
C12_FirstMatchingRelease ==
  Resolved =>
    LET hits == { i \in 1..Len(releases) : HasPlatformAsset(releases[i]) }
    IN  IF hits = {}
          THEN rlatest = None /\ pc = "NO_RELEASE"
          ELSE /\ rlatest # None
               /\ \E i \in hits :
                    /\ \A k \in 1..(i - 1) : k \notin hits
                    /\ rlatest[1].tag_name = releases[i].tag_name
                    /\ \E a \in 1..Len(releases[i].assets) :
                         /\ rlatest[1].tasset = releases[i].assets[a]
                         /\ LowerStr(releases[i].assets[a].label) = PlatformLower

C12_Witness ==
  /\ Resolved
  /\ Len(releases) = 2
  /\ ~HasPlatformAsset(releases[1])
  /\ HasPlatformAsset(releases[2])
  /\ releases[2].assets[2].label # PLATFORM
  /\ rlatest # None
  /\ rlatest[1].tag_name = releases[2].tag_name
  /\ rlatest[1].build = B8000

\* lines 267-270: os.unlink of the `current` entry the invocation started
\* with fails: the entry is missing or is a directory
UnlinkFails == fs0.current.kind \notin { "symlink", "file" }

\* lines 265-271: the relinking step of the running invocation has acted
Relinked ==
  /\ newpath # None
  /\ pc \notin { "RENAMING", "RELINKING_CURRENT" }
  /\ failedIn # "RENAMING"

\* C13: when the removal of the existing `current` entry fails, the
\* relinking step still leaves `current` pointing at the renamed versioned
\* directory and the run goes on to the userdata step instead of stopping
\* in the relinking step.
C13_UnlinkFailureIsWarning ==
  (UnlinkFails /\ Relinked) =>
    /\ current = Symlink(newpath[1])
    /\ failedIn # "RELINKING_CURRENT"
    /\ ~(pc = "CRASHED" /\ failedIn = "RELINKING_CURRENT")

\* C14: an invocation that got past the rename and the relinking ends in
\* no other way than completed with exit code 0, whatever fails while the
\* userdata directories and the data symlinks are made or the backup is
\* taken.
C14_UserdataAndBackupNeverFatal ==
  (pc \in Terminal /\ Relinked /\ failedIn # "RELINKING_CURRENT") =>
    /\ pc = "FINISHED"
    /\ exitcode = Some(0)

\* lines 241-305: the steps of the update workflow, in program order; the
\* data symlinks (288-291) are the second half of the userdata step
UpdateSteps ==
  << "DOWNLOADING", "EXTRACTING", "RENAMING", "RELINKING_CURRENT",
     "ENSURING_USERDATA", "LINKING_USERDATA", "BACKING_UP", "DONE" >>

\* the position of a step in the workflow, 0 for any other position
StepIndex(p) ==
  IF \E i \in 1..Len(UpdateSteps) : UpdateSteps[i] = p
    THEN CHOOSE i \in 1..Len(UpdateSteps) : UpdateSteps[i] = p
    ELSE 0

\* lines 246-263: the download, the extraction and the rename of the
\* running invocation have succeeded
Installable ==
  /\ tball # None
  /\ tdir # None
  /\ newpath # None
  /\ root[newpath[1]].kind = "dir"
  /\ root[newpath[1]].by = runs

\* C15: a step of the workflow is entered only from the step before it
\* (the first one only from a stale comparison with --update), within one
\* invocation, so the steps are visited in their fixed order, none twice
\* and none skipped; the exit with code 2 (ABORTED) is taken only from
\* DOWNLOADING, EXTRACTING or RENAMING; and `current` changes only in
\* RELINKING_CURRENT, after download, extraction and rename succeeded.
C15_FixedOrder ==
  [][ /\ (pc' # pc /\ StepIndex(pc') > 1) =>
           (StepIndex(pc) = StepIndex(pc') - 1 /\ runs' = runs)
      /\ (pc' # pc /\ StepIndex(pc') = 1) =>
           (pc = "STALE" /\ update /\ runs' = runs)
      /\ (pc' # pc /\ StepIndex(pc) > 0) =>
           (StepIndex(pc') = StepIndex(pc) + 1 \/ pc' \in { "ABORTED", "CRASHED", "FINISHED" })
      /\ (pc' # pc /\ pc' = "FINISHED") => pc = "DONE"
      /\ (pc' # pc /\ pc' = "ABORTED") => (pc \in FatalSteps /\ exitcode' = Some(2))
      /\ (exitcode' # exitcode /\ exitcode' = Some(2)) => pc' = "ABORTED"
      /\ (current' # current) => (pc = "RELINKING_CURRENT" /\ Installable)
    ]_vars

C15_Witness ==
  /\ pc = "FINISHED"
  /\ update
  /\ Installable
  /\ current # fs0.current
  /\ current = Symlink(newpath[1])

\* lines 252-260: the entry is a build directory that an invocation of
\* the tool extracted and renamed
MadeByTool(e) == e.kind = "dir" /\ e.by >= 1

\* C16: in every state, also between two steps of an update and after a
\* run that stopped early, a `current` that points at a versioned
\* directory made by the tool points at a directory that holds the three
\* symlinks save, config and sound into the userdata tree.
C16_CurrentTargetHasLinks ==
  (current.kind = "symlink" /\ MadeByTool(Lookup(root, current.target))) =>
    Lookup(root, current.target).links = AllLinks

\* lines 184-192: every backup directory the invocation started with is
\* still there as it was
BackupsKept ==
  \A b \in BackupNames : Exists(fs0.backups[b]) => backups[b] = fs0.backups[b]

\* C17 as claimed: every versioned build directory and every backup
\* directory that existed when the invocation started still exists and is
\* the same directory, also when the name <topdir>-<build> was taken.
C17_NothingReplaced ==
  /\ \A n \in RootNames :
       (Versioned(n) /\ fs0.root[n].kind = "dir") => root[n] = fs0.root[n]
  /\ BackupsKept

\* C17, amended: every backup directory and every versioned build
\* directory with something in it that existed when the invocation
\* started still exists and is the same directory; the one directory the
\* tool replaces is an existing empty directory named <topdir>-<build>,
\* which the rename turns into the new build directory.
C17_NonEmptyKept ==
  /\ \A n \in RootNames :
       (Versioned(n) /\ fs0.root[n].kind = "dir") =>
         \/ root[n] = fs0.root[n]
         \/ /\ IsEmptyDir(fs0.root[n])
            /\ newpath = Some(n)
            /\ root[n].kind = "dir"
            /\ root[n].by = runs
  /\ BackupsKept

C17_Witness ==
  /\ pc = "ABORTED"
  /\ failedIn = "RENAMING"
  /\ newpath = Some(V8001)
  /\ fs0.root[V8001] = BuildDir(0, "full", NoLinks)
  /\ root[V8001] = fs0.root[V8001]

\* lines 217-218: the release selected for this invocation is of the
\* build that the invocation before it installed
SameRemote ==
  /\ prevDone # None
  /\ rlatest # None
  /\ RemoteBuild = prevDone[1]

\* C18: the invocation that directly follows an update that reached DONE
\* for build N, and is offered build N again, resolves the installed
\* build as N from the name the update gave the new directory, is found
\* up to date, downloads nothing and leaves the filesystem as it was.
C18_UpdateIdempotent ==
  /\ prevDone # None => ~(raised /\ failedIn = "CHECKING")
  /\ SameRemote =>
    /\ pc \in { "COMPARING", "UP_TO_DATE" }
    /\ ~raised
    /\ rlocal = prevDone
    /\ tball = None
    /\ FS = fs0
    /\ pc = "UP_TO_DATE" => exitcode = Some(0)

C18_Witness ==
  /\ pc = "UP_TO_DATE"
  /\ update
  /\ prevDone = Some(B8001)
  /\ SameRemote
  /\ current = Symlink(V8001)
  /\ rlocal = Some(B8001)
  /\ FS = fs0

\* lines 252-263: the invocation started with the extracted, un-renamed
\* top-level directory of an earlier invocation in the installation root
Leftover ==
  /\ fs0.root[TOPDIR].kind = "dir"
  /\ fs0.root[TOPDIR].by >= 1
  /\ fs0.root[TOPDIR].by < runs
  /\ fs0.root[TOPDIR].payload = "full"

\* lines 246-252: the invocation has downloaded a sound archive with the
\* top-level directory of the leftover and has tried to extract it
ExtractedSameTopdir ==
  /\ tball # None
  /\ pc # "EXTRACTING"
  /\ Downloaded.valid
  /\ Downloaded.topdir = TOPDIR

\* C19: an update that aborts in RENAMING leaves the directory it
\* extracted, under its un-renamed name; and an invocation that starts
\* with such a leftover never changes `current`, and once it has tried to
\* extract an archive with the same top-level name it has aborted in
\* EXTRACTING with exit code 2, the leftover still in place.
C19_LeftoverBlocksUpdates ==
  /\ (pc = "ABORTED" /\ failedIn = "RENAMING") =>
       /\ root[tdir[1]].kind = "dir"
       /\ root[tdir[1]].by = runs
       /\ root[tdir[1]].payload = "full"
  /\ Leftover =>
       /\ current = fs0.current
       /\ root[TOPDIR] = fs0.root[TOPDIR]
       /\ ExtractedSameTopdir =>
            /\ pc = "ABORTED"
            /\ failedIn = "EXTRACTING"
            /\ exitcode = Some(2)
            /\ tdir = None

C19_Witness ==
  /\ runs = 2
  /\ update
  /\ Leftover
  /\ fs0.root[TOPDIR].by = 1
  /\ ExtractedSameTopdir
  /\ pc = "ABORTED"
  /\ failedIn = "EXTRACTING"
  /\ exitcode = Some(2)

====
